---- MODULE Spec2Model ----
(***************************************************************************)
(* Model of the ticket-counter engine of queue-ticket-service:            *)
(*   QueueService      (getTicket, resetQueue, getQueueStatus)            *)
(*   QueueRepository   (getCurrentTicketNumber, incrementTicketNumber,    *)
(*                      resetTicketNumber, createQueue, _getQueueKey)     *)
(*   the storage adapters (in-memory Map adapters and the Redis adapter). *)
(* Every request is a process; the steps of a request are the points at   *)
(* which it touches the store (each `await` on the adapter), so requests  *)
(* in flight interleave between their read and their write.               *)
(***************************************************************************)
EXTENDS Integers, Sequences, FiniteSets, TLC

(***************************************************************************)
(* Bounds of the model.                                                    *)
(***************************************************************************)
NumProcs == 2

\* The formatting functions are applied to 0..MaxSmallNumber and to the
\* numbers around the four-digit limit.
MaxSmallNumber == 20

Procs == 1..NumProcs

(***************************************************************************)
(* Program constants.                                                      *)
(***************************************************************************)
MAX_TICKET_NUMBER == 9999

MIN_TICKET_NUMBER == 0

(***************************************************************************)
(* JavaScript values that flow through the counter path.                   *)
(***************************************************************************)
Num(n) == [t |-> "number", n |-> n]

NaN == [t |-> "NaN", n |-> 0]

Null == [t |-> "null", n |-> 0]

Undefined == [t |-> "undefined", n |-> 0]

NoEntry == [t |-> "noentry", n |-> 0]

IsNum(v) == v.t = "number"

\* v + 1 in JavaScript: null is coerced to 0, undefined and NaN give NaN.
JsPlus1(v) ==
  CASE v.t = "number" -> Num(v.n + 1)
    [] v.t = "null" -> Num(1)
    [] OTHER -> NaN

\* v % m in JavaScript for a non-negative v.
JsMod(v, m) == IF IsNum(v) THEN Num(v.n % m) ELSE NaN

\* parseInt(v, 10): String(v) is parsed; "undefined", "null", "NaN" give NaN.
ParseInt10(v) == IF IsNum(v) THEN v ELSE NaN

\* v.toString() throws a TypeError for null and undefined.
ToStringThrows(v) == v.t \in {"null", "undefined"}

JsToString(v) == IF IsNum(v) THEN ToString(v.n) ELSE "NaN"

RECURSIVE PadStart(_, _, _)
PadStart(s, width, fill) ==
  IF Len(s) >= width THEN s ELSE PadStart(fill \o s, width, fill)

(***************************************************************************)
(* Queue identifiers and storage keys.  "" is the empty (invalid) id.      *)
(***************************************************************************)
QueueIds == {"a", "b"}

AnyQueueId == QueueIds \cup {""}

\* !queueId
IsMissing(queueId) == queueId = ""

\* A key template that drops the queueId.
QueueKey_NoId(queueId) == "queue:" \o ":ticket"

\* QueueRepository._getQueueKey
QueueKey(queueId) == "queue:" \o queueId \o ":ticket"

Keys == {QueueKey(q) : q \in QueueIds}

(***************************************************************************)
(* Text held by the Redis server: a sequence of characters.                *)
(***************************************************************************)
DigitChars == <<"0", "1", "2", "3", "4", "5", "6", "7", "8", "9">>

DigitVal(c) == (CHOOSE i \in 1..10 : DigitChars[i] = c) - 1

IsDigit(c) == \E i \in 1..10 : DigitChars[i] = c

RECURSIVE Digits(_)
Digits(n) ==
  IF n < 10 THEN <<DigitChars[n + 1]>>
  ELSE Digits(n \div 10) \o <<DigitChars[(n % 10) + 1]>>

RECURSIVE DigitsValue(_)
DigitsValue(text) ==
  IF Len(text) = 0 THEN 0
  ELSE 10 * DigitsValue(SubSeq(text, 1, Len(text) - 1)) + DigitVal(text[Len(text)])

IsIntegerText(text) == Len(text) > 0 /\ \A i \in 1..Len(text) : IsDigit(text[i])

NullText == <<"n", "u", "l", "l">>

\* JSON.stringify of a number, of NaN and of null.
JSONStringify(v) == IF IsNum(v) THEN Digits(v.n) ELSE NullText

\* JSON.parse of a text written by JSONStringify or by INCR.
JSONParse(text) == IF IsIntegerText(text) THEN Num(DigitsValue(text)) ELSE Null

RedisNil == [present |-> FALSE, text |-> <<>>]

RedisString(text) == [present |-> TRUE, text |-> text]

(***************************************************************************)
(* State.                                                                  *)
(***************************************************************************)
VARIABLES
  backend,            \* which storage adapter the repository was built with
  storage,            \* the Map of the in-memory adapters: key -> value
  redis,              \* the data of the Redis server: key -> string or nil
  redisUp,            \* the Redis server is reachable
  isConnected,        \* RedisStorageAdapter.isConnected
  connectionPromise,  \* RedisStorageAdapter.connectionPromise
  op,                 \* the operation each request runs
  qid,                \* its queueId argument
  pc,                 \* where the request stands
  readVal,            \* what getCurrentTicketNumber returned to it
  readAbsent,         \* its read found no entry for the key
  wrote,              \* the value it handed to the adapter's set
  res,                \* what the operation returned or threw
  store0,             \* the stored state at the start
  issued,             \* per queue, the tickets returned, in order of return
  sequential,         \* no request has acted while another was in flight
  prevOp              \* per request, the last operation that had completed
                      \* on its queue when it started
  ,lastOp             \* per queue, the last operation that completed on it
  ,writeLog           \* per request, the <<key, value>> pairs it had the store set
  ,fmtIn              \* the number handed to the formatting functions
  ,fmtSvc             \* what QueueService.formatTicketNumber made of it
  ,fmtTicket          \* what Ticket.formatNumber made of it
  ,keyIds             \* the two queueIds handed to _getQueueKey
  ,keyOut             \* the storage keys it made of them
  ,advIn              \* the current value handed to the three counter advances
  ,advOut             \* what each of them made of it
  ,attempt            \* the client.connect() call: "none", "running", "over"
  ,connectCalls       \* how many times client.connect() was invoked
  ,redisSilent        \* the Redis server has stopped answering

vars == <<backend, storage, redis, redisUp, isConnected, connectionPromise,
          op, qid, pc, readVal, readAbsent, wrote, res, store0, issued,
          sequential, prevOp, lastOp, writeLog, fmtIn, fmtSvc, fmtTicket,
                 keyIds, keyOut, advIn, advOut,
                 attempt, connectCalls, redisSilent>>

Backends == {"memory", "factoryMemory", "redis"}

\* Stored counters the run may start from.
InitCounters == {0, MAX_TICKET_NUMBER}

NoResult == [kind |-> "none", ticket |-> "", value |-> Null, flag |-> FALSE, msg |-> ""]

Returned(ticket, value, flag) ==
  [kind |-> "ok", ticket |-> ticket, value |-> value, flag |-> flag, msg |-> ""]

Thrown(msg) ==
  [kind |-> "error", ticket |-> "", value |-> Null, flag |-> FALSE, msg |-> msg]

(***************************************************************************)
(* Storage adapters.                                                       *)
(***************************************************************************)
\* RedisStorageAdapter.connect followed by a command: the command is sent
\* only when the connection attempt (cached in connectionPromise) succeeded.
CommandOK ==
  \/ backend # "redis"
  \/ redisUp /\ (isConnected \/ connectionPromise = "none")

\* RedisStorageAdapter.connect: the effect on the adapter's fields.
Connect ==
  IF backend = "redis" /\ ~isConnected /\ connectionPromise = "none"
  THEN /\ isConnected' = redisUp
       /\ connectionPromise' = IF redisUp THEN "resolved" ELSE "rejected"
  ELSE UNCHANGED <<isConnected, connectionPromise>>

\* A get that takes a falsy parsed value, 0 included, for a missing one.
AdapterGet_FalsyZero(key) ==
  LET value ==
        CASE backend = "memory" ->
               IF storage[key] # NoEntry THEN storage[key] ELSE Null
          [] backend = "factoryMemory" ->
               IF storage[key] # NoEntry THEN storage[key] ELSE Undefined
          [] OTHER ->
               IF redis[key].present /\ redis[key].text # <<>>
               THEN JSONParse(redis[key].text) ELSE Null
  IN  IF value = Num(0) \/ value = NaN THEN Null ELSE value

\* The value get(key) resolves to.
AdapterGet(key) ==
  CASE backend = "memory" ->
         IF storage[key] # NoEntry THEN storage[key] ELSE Null
    [] backend = "factoryMemory" ->
         IF storage[key] # NoEntry THEN storage[key] ELSE Undefined
    [] OTHER ->
         IF redis[key].present /\ redis[key].text # <<>>
         THEN JSONParse(redis[key].text) ELSE Null

\* set(key, value)
AdapterSet(key, value) ==
  IF backend = "redis"
  THEN /\ redis' = [redis EXCEPT ![key] = RedisString(JSONStringify(value))]
       /\ UNCHANGED storage
  ELSE /\ storage' = [storage EXCEPT ![key] = value]
       /\ UNCHANGED redis

\* QueueRepository.updateTicketNumber(queueId, value): the method
\* QueueService calls to persist a counter; it stores value under the key
\* of the queue.
UpdateTicketNumber(queueId, value) == AdapterSet(QueueKey(queueId), value)

\* The key holds an entry in the store.
HasEntry(key) ==
  IF backend = "redis" THEN redis[key].present ELSE storage[key] # NoEntry

\* A delete that reports success whether or not the key was there.
DeleteResult_AlwaysTrue(key) == TRUE

\* What delete(key) resolves to: Map.delete's boolean, DEL's count > 0.
DeleteResult(key) ==
  IF backend = "redis" THEN redis[key].present ELSE storage[key] # NoEntry

\* delete(key)
AdapterDelete(key) ==
  IF backend = "redis"
  THEN /\ redis' = [redis EXCEPT ![key] = RedisNil]
       /\ UNCHANGED storage
  ELSE /\ storage' = [storage EXCEPT ![key] = NoEntry]
       /\ UNCHANGED redis

\* INCR on the Redis server succeeds on a missing key and on an integer.
IncrOK(key) == ~redis[key].present \/ IsIntegerText(redis[key].text)

\* INCR that hands back the value it found instead of the one it leaves.
IncrValue_NoAdd(key) ==
  IF redis[key].present THEN DigitsValue(redis[key].text) ELSE 0

\* The value INCR leaves and returns.
IncrValue(key) ==
  IF redis[key].present THEN DigitsValue(redis[key].text) + 1 ELSE 1

NoData == UNCHANGED <<storage, redis>>

(***************************************************************************)
(* QueueRepository.getCurrentTicketNumber, after the adapter's get.        *)
(***************************************************************************)
GetCurrentTicketNumber(queueId) ==
  LET value == AdapterGet(QueueKey(queueId))
  IN  IF value # Null THEN ParseInt10(value) ELSE Null

\* The advance without the modulo.
NextTicket_NoWrap(currentNumber) == JsPlus1(currentNumber)

\* QueueService.getTicket: currentNumber = (currentNumber + 1) % (MAX + 1)
NextTicket(currentNumber) == JsMod(JsPlus1(currentNumber), MAX_TICKET_NUMBER + 1)

\* QueueRepository.incrementTicketNumber: n + 1, back to 0 above the maximum
NextNumber(currentNumber) ==
  LET nextNumber == JsPlus1(currentNumber)
  IN  IF IsNum(nextNumber) /\ nextNumber.n > MAX_TICKET_NUMBER
      THEN Num(0) ELSE nextNumber

\* QueueService.formatTicketNumber of a value toString accepts
FormatTicketNumber(number) == PadStart(JsToString(number), 4, "0")

\* The stored counter of a queue as the engine sees it, NoEntry when absent.
Stored(queueId) ==
  LET key == QueueKey(queueId)
  IN  IF backend = "redis"
      THEN IF redis[key].present THEN JSONParse(redis[key].text) ELSE NoEntry
      ELSE storage[key]

(***************************************************************************)
(* Bookkeeping shared by the steps of a request.                           *)
(***************************************************************************)
InFlight(p) == pc[p] \notin {"idle", "done"}

Begin(p, o, queueId) ==
  /\ pc[p] = "idle"
  /\ op' = [op EXCEPT ![p] = o]
  /\ qid' = [qid EXCEPT ![p] = queueId]
  /\ prevOp' = [prevOp EXCEPT ![p] =
                  IF queueId \in QueueIds THEN lastOp[queueId] ELSE "none"]

Continue(p) == UNCHANGED <<op, qid, prevOp>>

Acts(p) ==
  sequential' = (sequential /\ \A p2 \in Procs \ {p} : ~InFlight(p2))

Complete(p, o, queueId, r) ==
  /\ pc' = [pc EXCEPT ![p] = "done"]
  /\ res' = [res EXCEPT ![p] = r]
  /\ lastOp' = IF queueId \in QueueIds
               THEN [lastOp EXCEPT ![queueId] =
                       IF r.kind = "ok" THEN o ELSE "failed"]
               ELSE lastOp
  /\ issued' = IF o = "getTicket" /\ r.kind = "ok"
               THEN [issued EXCEPT ![queueId] = Append(@, r.ticket)]
               ELSE issued

Await(p, label) ==
  /\ pc' = [pc EXCEPT ![p] = label]
  /\ UNCHANGED <<res, lastOp, issued>>

NoRead == UNCHANGED <<readVal, readAbsent>>

Read(p, queueId) ==
  /\ readVal' = [readVal EXCEPT ![p] = GetCurrentTicketNumber(queueId)]
  /\ readAbsent' = [readAbsent EXCEPT ![p] = ~HasEntry(QueueKey(queueId))]

Fixed ==
  UNCHANGED <<backend, redisUp, store0, fmtIn, fmtSvc, fmtTicket,
              keyIds, keyOut, advIn, advOut,
              attempt, connectCalls, redisSilent>>

NoWrite == UNCHANGED <<wrote, writeLog>>

\* The request had the store set key to value.
Wrote(p, key, value) ==
  /\ wrote' = [wrote EXCEPT ![p] = value]
  /\ writeLog' = [writeLog EXCEPT ![p] = Append(@, <<key, value>>)]

(***************************************************************************)
(* A read step that, when the store fails, goes on with a default value.   *)
(***************************************************************************)
GetTicketRead_Default(p, queueId) ==
  /\ Begin(p, "getTicket", queueId)
  /\ Acts(p)
  /\ Fixed
  /\ NoData
  /\ NoWrite
  /\ IF IsMissing(queueId)
     THEN /\ UNCHANGED <<isConnected, connectionPromise>>
          /\ NoRead
          /\ Complete(p, "getTicket", queueId,
                      Thrown("Failed to get ticket for queue " \o queueId))
     ELSE /\ Connect
          /\ IF CommandOK
             THEN /\ Read(p, queueId)
                  /\ Await(p, "gt_write")
             ELSE /\ readVal' = [readVal EXCEPT ![p] = Null]
                  /\ readAbsent' = [readAbsent EXCEPT ![p] = TRUE]
                  /\ Await(p, "gt_write")

(***************************************************************************)
(* QueueService.getTicket: the read (getCurrentTicketNumber) ...           *)
(***************************************************************************)
GetTicketRead(p, queueId) ==
  /\ Begin(p, "getTicket", queueId)
  /\ Acts(p)
  /\ Fixed
  /\ NoData
  /\ NoWrite
  /\ IF IsMissing(queueId)
     THEN /\ UNCHANGED <<isConnected, connectionPromise>>
          /\ NoRead
          /\ Complete(p, "getTicket", queueId,
                      Thrown("Failed to get ticket for queue " \o queueId))
     ELSE /\ Connect
          /\ IF CommandOK
             THEN /\ Read(p, queueId)
                  /\ Await(p, "gt_write")
             ELSE /\ NoRead
                  /\ Complete(p, "getTicket", queueId,
                              Thrown("Failed to get ticket for queue " \o queueId))

(***************************************************************************)
(* A write step whose failed set has stored the value all the same.        *)
(***************************************************************************)
GetTicketWrite_TornWrite(p) ==
  LET queueId == qid[p]
      currentNumber == NextTicket(readVal[p])
  IN  /\ pc[p] = "gt_write"
      /\ Continue(p)
      /\ Acts(p)
      /\ Fixed
      /\ NoRead
      /\ Connect
      /\ UpdateTicketNumber(queueId, currentNumber)
      /\ IF CommandOK
         THEN /\ Wrote(p, QueueKey(queueId), currentNumber)
              /\ Complete(p, "getTicket", queueId,
                   IF ToStringThrows(currentNumber)
                   THEN Thrown("Failed to get ticket for queue " \o queueId)
                   ELSE Returned(FormatTicketNumber(currentNumber), currentNumber, TRUE))
         ELSE /\ NoWrite
              /\ Complete(p, "getTicket", queueId,
                          Thrown("Failed to get ticket for queue " \o queueId))

(***************************************************************************)
(* ... and the write (updateTicketNumber) with the formatted return.       *)
(***************************************************************************)
GetTicketWrite(p) ==
  LET queueId == qid[p]
      currentNumber == NextTicket(readVal[p])
  IN  /\ pc[p] = "gt_write"
      /\ Continue(p)
      /\ Acts(p)
      /\ Fixed
      /\ NoRead
      /\ Connect
      /\ IF CommandOK
         THEN /\ UpdateTicketNumber(queueId, currentNumber)
              /\ Wrote(p, QueueKey(queueId), currentNumber)
              /\ Complete(p, "getTicket", queueId,
                   IF ToStringThrows(currentNumber)
                   THEN Thrown("Failed to get ticket for queue " \o queueId)
                   ELSE Returned(FormatTicketNumber(currentNumber), currentNumber, TRUE))
         ELSE /\ NoData
              /\ NoWrite
              /\ Complete(p, "getTicket", queueId,
                          Thrown("Failed to get ticket for queue " \o queueId))

(***************************************************************************)
(* A reset that refuses a queue that has no stored counter.                *)
(***************************************************************************)
ResetQueue_OnlyExisting(p, queueId) ==
  /\ Begin(p, "resetQueue", queueId)
  /\ Acts(p)
  /\ Fixed
  /\ NoRead
  /\ IF IsMissing(queueId)
     THEN /\ UNCHANGED <<isConnected, connectionPromise>>
          /\ NoWrite
          /\ NoData
          /\ Complete(p, "resetQueue", queueId,
                      Thrown("Failed to reset queue " \o queueId))
     ELSE /\ Connect
          /\ IF CommandOK /\ HasEntry(QueueKey(queueId))
             THEN /\ UpdateTicketNumber(queueId, Num(0))
                  /\ Wrote(p, QueueKey(queueId), Num(0))
                  /\ Complete(p, "resetQueue", queueId, Returned("", Null, TRUE))
             ELSE /\ NoData
                  /\ NoWrite
                  /\ Complete(p, "resetQueue", queueId,
                              Thrown("Failed to reset queue " \o queueId))

(***************************************************************************)
(* QueueService.resetQueue: updateTicketNumber(queueId, 0).                *)
(***************************************************************************)
ResetQueue(p, queueId) ==
  /\ Begin(p, "resetQueue", queueId)
  /\ Acts(p)
  /\ Fixed
  /\ NoRead
  /\ IF IsMissing(queueId)
     THEN /\ UNCHANGED <<isConnected, connectionPromise>>
          /\ NoWrite
          /\ NoData
          /\ Complete(p, "resetQueue", queueId,
                      Thrown("Failed to reset queue " \o queueId))
     ELSE /\ Connect
          /\ IF CommandOK
             THEN /\ UpdateTicketNumber(queueId, Num(0))
                  /\ Wrote(p, QueueKey(queueId), Num(0))
                  /\ Complete(p, "resetQueue", queueId, Returned("", Null, TRUE))
             ELSE /\ NoData
                  /\ NoWrite
                  /\ Complete(p, "resetQueue", queueId,
                              Thrown("Failed to reset queue " \o queueId))

(***************************************************************************)
(* A status read that creates the counter of a queue it does not find.     *)
(***************************************************************************)
GetQueueStatus_Persisting(p, queueId) ==
  /\ Begin(p, "getQueueStatus", queueId)
  /\ Acts(p)
  /\ Fixed
  /\ NoWrite
  /\ IF IsMissing(queueId)
     THEN /\ UNCHANGED <<isConnected, connectionPromise>>
          /\ NoRead
          /\ NoData
          /\ Complete(p, "getQueueStatus", queueId,
                      Thrown("Failed to get status for queue " \o queueId))
     ELSE /\ Connect
          /\ IF CommandOK
             THEN /\ Read(p, queueId)
                  /\ IF HasEntry(QueueKey(queueId))
                     THEN NoData
                     ELSE AdapterSet(QueueKey(queueId), Num(0))
                  /\ LET currentNumber == GetCurrentTicketNumber(queueId)
                     IN  Complete(p, "getQueueStatus", queueId,
                           IF ToStringThrows(currentNumber)
                           THEN Thrown("Failed to get status for queue " \o queueId)
                           ELSE Returned(FormatTicketNumber(currentNumber),
                                         currentNumber, TRUE))
             ELSE /\ NoRead
                  /\ NoData
                  /\ Complete(p, "getQueueStatus", queueId,
                              Thrown("Failed to get status for queue " \o queueId))

(***************************************************************************)
(* QueueService.getQueueStatus.                                            *)
(***************************************************************************)
GetQueueStatus(p, queueId) ==
  /\ Begin(p, "getQueueStatus", queueId)
  /\ Acts(p)
  /\ Fixed
  /\ NoData
  /\ NoWrite
  /\ IF IsMissing(queueId)
     THEN /\ UNCHANGED <<isConnected, connectionPromise>>
          /\ NoRead
          /\ Complete(p, "getQueueStatus", queueId,
                      Thrown("Failed to get status for queue " \o queueId))
     ELSE /\ Connect
          /\ IF CommandOK
             THEN /\ Read(p, queueId)
                  /\ LET currentNumber == GetCurrentTicketNumber(queueId)
                     IN  Complete(p, "getQueueStatus", queueId,
                           IF ToStringThrows(currentNumber)
                           THEN Thrown("Failed to get status for queue " \o queueId)
                           ELSE Returned(FormatTicketNumber(currentNumber),
                                         currentNumber, TRUE))
             ELSE /\ NoRead
                  /\ Complete(p, "getQueueStatus", queueId,
                              Thrown("Failed to get status for queue " \o queueId))

(***************************************************************************)
(* deleteQueue: the adapter's delete on the key of the queue.              *)
(***************************************************************************)
DeleteQueue(p, queueId) ==
  /\ Begin(p, "deleteQueue", queueId)
  /\ Acts(p)
  /\ Fixed
  /\ NoRead
  /\ NoWrite
  /\ IF IsMissing(queueId)
     THEN /\ UNCHANGED <<isConnected, connectionPromise>>
          /\ NoData
          /\ Complete(p, "deleteQueue", queueId, Thrown("Failed to delete queue"))
     ELSE /\ Connect
          /\ IF CommandOK
             THEN /\ AdapterDelete(QueueKey(queueId))
                  /\ Complete(p, "deleteQueue", queueId,
                              Returned("", Null, DeleteResult(QueueKey(queueId))))
             ELSE /\ NoData
                  /\ Complete(p, "deleteQueue", queueId,
                              Thrown("Failed to delete queue"))

(***************************************************************************)
(* QueueRepository.createQueue: the existence check ...                    *)
(***************************************************************************)
CreateQueueRead(p, queueId) ==
  /\ Begin(p, "createQueue", queueId)
  /\ Acts(p)
  /\ Fixed
  /\ NoData
  /\ NoWrite
  /\ IF IsMissing(queueId)
     THEN /\ UNCHANGED <<isConnected, connectionPromise>>
          /\ NoRead
          /\ Complete(p, "createQueue", queueId, Thrown("Queue ID is required"))
     ELSE /\ Connect
          /\ IF CommandOK
             THEN /\ Read(p, queueId)
                  /\ IF GetCurrentTicketNumber(queueId) # Null
                     THEN Complete(p, "createQueue", queueId,
                                   Thrown("Queue " \o queueId \o " already exists"))
                     ELSE Await(p, "cq_write")
             ELSE /\ NoRead
                  /\ Complete(p, "createQueue", queueId,
                              Thrown("Failed to get data from Redis"))

(***************************************************************************)
(* ... and the set(key, 0).                                                *)
(***************************************************************************)
CreateQueueWrite(p) ==
  /\ pc[p] = "cq_write"
  /\ Continue(p)
  /\ Acts(p)
  /\ Fixed
  /\ NoRead
  /\ Connect
  /\ IF CommandOK
     THEN /\ AdapterSet(QueueKey(qid[p]), Num(0))
          /\ Wrote(p, QueueKey(qid[p]), Num(0))
          /\ Complete(p, "createQueue", qid[p], Returned("", Null, TRUE))
     ELSE /\ NoData
          /\ NoWrite
          /\ Complete(p, "createQueue", qid[p],
                      Thrown("Failed to save data to Redis"))

(***************************************************************************)
(* QueueRepository.incrementTicketNumber: the read ...                     *)
(***************************************************************************)
IncrementRead(p, queueId) ==
  /\ Begin(p, "incrementTicketNumber", queueId)
  /\ Acts(p)
  /\ Fixed
  /\ NoData
  /\ NoWrite
  /\ IF IsMissing(queueId)
     THEN /\ UNCHANGED <<isConnected, connectionPromise>>
          /\ NoRead
          /\ Complete(p, "incrementTicketNumber", queueId,
                      Thrown("Queue ID is required"))
     ELSE /\ Connect
          /\ IF CommandOK
             THEN /\ Read(p, queueId)
                  /\ IF GetCurrentTicketNumber(queueId) = Null
                     THEN Complete(p, "incrementTicketNumber", queueId,
                                   Thrown("Queue " \o queueId \o " does not exist"))
                     ELSE Await(p, "inc_write")
             ELSE /\ NoRead
                  /\ Complete(p, "incrementTicketNumber", queueId,
                              Thrown("Failed to get data from Redis"))

(***************************************************************************)
(* ... and the set(key, nextNumber).                                       *)
(***************************************************************************)
IncrementWrite(p) ==
  LET nextNumber == NextNumber(readVal[p])
  IN  /\ pc[p] = "inc_write"
      /\ Continue(p)
      /\ Acts(p)
      /\ Fixed
      /\ NoRead
      /\ Connect
      /\ IF CommandOK
         THEN /\ AdapterSet(QueueKey(qid[p]), nextNumber)
              /\ Wrote(p, QueueKey(qid[p]), nextNumber)
              /\ Complete(p, "incrementTicketNumber", qid[p],
                          Returned("", nextNumber, TRUE))
         ELSE /\ NoData
              /\ NoWrite
              /\ Complete(p, "incrementTicketNumber", qid[p],
                          Thrown("Failed to save data to Redis"))

(***************************************************************************)
(* RedisStorageAdapter.increment on the key of a queue.                    *)
(***************************************************************************)
AdapterIncrement(p, queueId) ==
  LET key == QueueKey(queueId)
  IN  /\ backend = "redis"
      /\ queueId \in QueueIds
      /\ Begin(p, "increment", queueId)
      /\ Acts(p)
      /\ Fixed
      /\ NoRead
      /\ Connect
      /\ UNCHANGED storage
      /\ IF CommandOK /\ IncrOK(key)
         THEN /\ redis' = [redis EXCEPT ![key] = RedisString(Digits(IncrValue(key)))]
              /\ Wrote(p, key, Num(IncrValue(key)))
              /\ Complete(p, "increment", queueId,
                          Returned("", Num(IncrValue(key)), TRUE))
         ELSE /\ UNCHANGED redis
              /\ NoWrite
              /\ Complete(p, "increment", queueId,
                          Thrown("Failed to increment value in Redis"))

(***************************************************************************)
(* The Redis server becomes unreachable, or reachable again.               *)
(***************************************************************************)
ToggleRedis ==
  /\ backend = "redis"
  /\ redisUp' = ~redisUp
  /\ UNCHANGED <<backend, storage, redis, isConnected, connectionPromise,
                 op, qid, pc, readVal, readAbsent, wrote, res, store0, issued,
                 sequential, prevOp, lastOp, writeLog, fmtIn, fmtSvc, fmtTicket,
                 keyIds, keyOut, advIn, advOut,
                 attempt, connectCalls, redisSilent>>

(***************************************************************************)
(* Initial states: a store holding any of the starting counters, no        *)
(* request started.                                                        *)
(***************************************************************************)
InitEntries == {NoEntry} \cup {Num(n) : n \in InitCounters}

InitEngine ==
  /\ backend \in Backends
  /\ store0 \in [QueueIds -> InitEntries]
  /\ storage = [k \in Keys |->
        IF backend = "redis" THEN NoEntry
        ELSE store0[CHOOSE q \in QueueIds : QueueKey(q) = k]]
  /\ redis = [k \in Keys |->
        LET v == store0[CHOOSE q \in QueueIds : QueueKey(q) = k]
        IN  IF backend = "redis" /\ v # NoEntry
            THEN RedisString(JSONStringify(v)) ELSE RedisNil]
  /\ redisUp = TRUE
  /\ isConnected \in (IF backend = "redis" THEN BOOLEAN ELSE {FALSE})
  /\ connectionPromise = IF isConnected THEN "resolved" ELSE "none"
  /\ op = [p \in Procs |-> "none"]
  /\ qid = [p \in Procs |-> ""]
  /\ pc = [p \in Procs |-> "idle"]
  /\ readVal = [p \in Procs |-> Null]
  /\ readAbsent = [p \in Procs |-> FALSE]
  /\ wrote = [p \in Procs |-> NoEntry]
  /\ res = [p \in Procs |-> NoResult]
  /\ issued = [q \in QueueIds |-> <<>>]
  /\ sequential = TRUE
  /\ prevOp = [p \in Procs |-> "none"]
  /\ lastOp = [q \in QueueIds |-> "none"]
  /\ writeLog = [p \in Procs |-> <<>>]
  /\ attempt = "none"
  /\ connectCalls = 0
  /\ redisSilent = FALSE

Init ==
  /\ InitEngine
  /\ fmtIn = 0
  /\ fmtSvc = NoResult
  /\ fmtTicket = NoResult
  /\ keyIds = <<"a", "b">>
  /\ keyOut = <<>>
  /\ advIn = Num(0)
  /\ advOut = <<>>

Next ==
  \/ \E p \in Procs, queueId \in AnyQueueId : GetTicketRead(p, queueId)
  \/ \E p \in Procs : GetTicketWrite(p)
  \/ \E p \in Procs, queueId \in AnyQueueId : ResetQueue(p, queueId)
  \/ \E p \in Procs, queueId \in AnyQueueId : GetQueueStatus(p, queueId)
  \/ \E p \in Procs, queueId \in AnyQueueId : DeleteQueue(p, queueId)
  \/ ToggleRedis

\* The engine's operations.
Spec == Init /\ [][Next]_vars

NextRepo ==
  \/ Next
  \/ \E p \in Procs, queueId \in AnyQueueId : CreateQueueRead(p, queueId)
  \/ \E p \in Procs : CreateQueueWrite(p)
  \/ \E p \in Procs, queueId \in AnyQueueId : IncrementRead(p, queueId)
  \/ \E p \in Procs : IncrementWrite(p)
  \/ \E p \in Procs, queueId \in AnyQueueId : AdapterIncrement(p, queueId)

\* The engine's operations together with the repository's and the Redis
\* adapter's own operations.
SpecRepo == Init /\ [][NextRepo]_vars

(***************************************************************************)
(* The formatting functions on their own: QueueService.formatTicketNumber  *)
(* and Ticket.formatNumber applied to a number.                            *)
(***************************************************************************)
FormatInputs ==
  (0..MaxSmallNumber)
    \cup {999, 1000, MAX_TICKET_NUMBER - 1, MAX_TICKET_NUMBER,
          MAX_TICKET_NUMBER + 1, MAX_TICKET_NUMBER + 2, MAX_TICKET_NUMBER + 3,
          20042}

\* Ticket.formatNumber
TicketFormatNumber(number) ==
  IF ~IsNum(number) \/ number.n < MIN_TICKET_NUMBER \/ number.n > MAX_TICKET_NUMBER
  THEN Thrown("Invalid ticket number: " \o JsToString(number)
              \o ". Must be between " \o ToString(MIN_TICKET_NUMBER)
              \o " and " \o ToString(MAX_TICKET_NUMBER))
  ELSE Returned(PadStart(JsToString(number), 4, "0"), number, TRUE)

\* Neither function reads or writes anything but its argument.
EngineUntouched ==
  UNCHANGED <<backend, storage, redis, redisUp, isConnected, connectionPromise,
              op, qid, pc, readVal, readAbsent, wrote, res, store0, issued,
              sequential, prevOp, lastOp, writeLog,
              attempt, connectCalls, redisSilent>>

FormatTicketNumberCall ==
  /\ fmtSvc.kind = "none"
  /\ fmtSvc' = Returned(FormatTicketNumber(Num(fmtIn)), Num(fmtIn), TRUE)
  /\ UNCHANGED <<fmtIn, fmtTicket, keyIds, keyOut, advIn, advOut>>
  /\ EngineUntouched

TicketFormatNumberCall ==
  /\ fmtTicket.kind = "none"
  /\ fmtTicket' = TicketFormatNumber(Num(fmtIn))
  /\ UNCHANGED <<fmtIn, fmtSvc, keyIds, keyOut, advIn, advOut>>
  /\ EngineUntouched

InitFormat ==
  /\ InitEngine
  /\ backend = "memory"
  /\ redisUp
  /\ \A q \in QueueIds : store0[q] = NoEntry
  /\ fmtIn \in FormatInputs
  /\ fmtSvc = NoResult
  /\ fmtTicket = NoResult
  /\ keyIds = <<"a", "b">>
  /\ keyOut = <<>>
  /\ advIn = Num(0)
  /\ advOut = <<>>

NextFormat ==
  \/ FormatTicketNumberCall
  \/ TicketFormatNumberCall

SpecFormat == InitFormat /\ [][NextFormat]_vars

(***************************************************************************)
(* QueueRepository._getQueueKey on its own, applied to two queueIds, among *)
(* them ids that contain ':' or the prefix or the suffix of the key.       *)
(***************************************************************************)
KeyInputs ==
  {"a", "b", "a:", ":a", ":", "a:ticket", "queue:a", "queue:a:ticket",
   "ticket", "queue", "queue:with:colons"}

GetQueueKeyCall ==
  /\ keyOut = <<>>
  /\ keyOut' = <<QueueKey(keyIds[1]), QueueKey(keyIds[2])>>
  /\ UNCHANGED <<keyIds, fmtIn, fmtSvc, fmtTicket, advIn, advOut>>
  /\ EngineUntouched

InitKey ==
  /\ InitEngine
  /\ backend = "memory"
  /\ \A q \in QueueIds : store0[q] = NoEntry
  /\ fmtIn = 0
  /\ fmtSvc = NoResult
  /\ fmtTicket = NoResult
  /\ keyIds \in KeyInputs \X KeyInputs
  /\ keyOut = <<>>
  /\ advIn = Num(0)
  /\ advOut = <<>>

NextKey == GetQueueKeyCall

SpecKey == InitKey /\ [][NextKey]_vars

(***************************************************************************)
(* The three counter advances on their own, applied to one current value:  *)
(* the arithmetic of QueueService.getTicket, the arithmetic of             *)
(* QueueRepository.incrementTicketNumber with its test for an absent       *)
(* queue, and Ticket.getNextNumber.                                        *)
(***************************************************************************)
AdvanceInputs ==
  {Null} \cup {Num(n) : n \in (0..MaxSmallNumber)
                               \cup {999, 5000, MAX_TICKET_NUMBER - 1,
                                     MAX_TICKET_NUMBER}}

\* Ticket.getNextNumber
TicketGetNextNumber(currentNumber) ==
  IF currentNumber.t \notin {"number", "NaN"}
  THEN Thrown("Current number must be a number")
  ELSE IF IsNum(currentNumber)
          /\ (currentNumber.n < MIN_TICKET_NUMBER
                \/ currentNumber.n > MAX_TICKET_NUMBER)
  THEN Thrown("Current number must be between " \o ToString(MIN_TICKET_NUMBER)
              \o " and " \o ToString(MAX_TICKET_NUMBER))
  ELSE IF currentNumber = Num(MAX_TICKET_NUMBER)
  THEN Returned("", Num(MIN_TICKET_NUMBER), TRUE)
  ELSE Returned("", JsPlus1(currentNumber), TRUE)

\* What incrementTicketNumber makes of the value it read.
IncrementAdvance(currentNumber) ==
  IF currentNumber = Null
  THEN Thrown("Queue does not exist")
  ELSE Returned("", NextNumber(currentNumber), TRUE)

NoAdvance ==
  [getTicket |-> NoResult, incrementTicketNumber |-> NoResult,
   getNextNumber |-> NoResult]

AdvanceFrame ==
  /\ UNCHANGED <<advIn, fmtIn, fmtSvc, fmtTicket, keyIds, keyOut>>
  /\ EngineUntouched

GetTicketAdvanceCall ==
  /\ advOut.getTicket.kind = "none"
  /\ advOut' = [advOut EXCEPT !.getTicket = Returned("", NextTicket(advIn), TRUE)]
  /\ AdvanceFrame

IncrementAdvanceCall ==
  /\ advOut.incrementTicketNumber.kind = "none"
  /\ advOut' = [advOut EXCEPT !.incrementTicketNumber = IncrementAdvance(advIn)]
  /\ AdvanceFrame

GetNextNumberCall ==
  /\ advOut.getNextNumber.kind = "none"
  /\ advOut' = [advOut EXCEPT !.getNextNumber = TicketGetNextNumber(advIn)]
  /\ AdvanceFrame

InitAdvance ==
  /\ InitEngine
  /\ backend = "memory"
  /\ \A q \in QueueIds : store0[q] = NoEntry
  /\ fmtIn = 0
  /\ fmtSvc = NoResult
  /\ fmtTicket = NoResult
  /\ keyIds = <<"a", "b">>
  /\ keyOut = <<>>
  /\ advIn \in AdvanceInputs
  /\ advOut = NoAdvance

NextAdvance ==
  \/ GetTicketAdvanceCall
  \/ IncrementAdvanceCall
  \/ GetNextNumberCall

SpecAdvance == InitAdvance /\ [][NextAdvance]_vars

(***************************************************************************)
(* RedisStorageAdapter call by call: connect() with its cached promise,    *)
(* the client's connection attempt and 'error' event, and the command      *)
(* whose reply the caller awaits.  Callers use the key of one queue.       *)
(***************************************************************************)
AdapterCommands == {"get", "set", "delete", "increment"}

ConnQueue == "a"

ConnFrame ==
  UNCHANGED <<backend, storage, store0, readVal, readAbsent, wrote, writeLog,
              issued, sequential, prevOp, lastOp, fmtIn, fmtSvc, fmtTicket,
              keyIds, keyOut, advIn, advOut>>

\* connect without the test of the cached promise: every caller that finds
\* the adapter unconnected invokes client.connect().
AdapterCall_NoCache(p, c) ==
  /\ pc[p] = "idle"
  /\ op' = [op EXCEPT ![p] = c]
  /\ qid' = [qid EXCEPT ![p] = ConnQueue]
  /\ IF isConnected
     THEN /\ pc' = [pc EXCEPT ![p] = "await_reply"]
          /\ UNCHANGED <<connectionPromise, attempt, connectCalls>>
     ELSE /\ connectionPromise' = "pending"
          /\ attempt' = "running"
          /\ connectCalls' = connectCalls + 1
          /\ pc' = [pc EXCEPT ![p] = "await_connect"]
  /\ UNCHANGED <<redis, redisUp, redisSilent, isConnected, res>>
  /\ ConnFrame

\* A caller enters get / set / delete / increment: `await this.connect()`.
\* connect returns at once when isConnected; it creates the promise and
\* invokes client.connect() when no promise is cached; otherwise it hands
\* out the cached promise.
AdapterCall(p, c) ==
  /\ pc[p] = "idle"
  /\ op' = [op EXCEPT ![p] = c]
  /\ qid' = [qid EXCEPT ![p] = ConnQueue]
  /\ IF isConnected
     THEN /\ pc' = [pc EXCEPT ![p] = "await_reply"]
          /\ UNCHANGED <<connectionPromise, attempt, connectCalls>>
     ELSE IF connectionPromise = "none"
     THEN /\ connectionPromise' = "pending"
          /\ attempt' = "running"
          /\ connectCalls' = connectCalls + 1
          /\ pc' = [pc EXCEPT ![p] = "await_connect"]
     ELSE /\ pc' = [pc EXCEPT ![p] = "await_connect"]
          /\ UNCHANGED <<connectionPromise, attempt, connectCalls>>
  /\ UNCHANGED <<redis, redisUp, redisSilent, isConnected, res>>
  /\ ConnFrame

\* client.connect() resolves: isConnected = true; resolve().
ConnectResolved ==
  /\ attempt = "running"
  /\ redisUp /\ ~redisSilent
  /\ attempt' = "over"
  /\ isConnected' = TRUE
  /\ connectionPromise' =
       IF connectionPromise = "pending" THEN "resolved" ELSE connectionPromise
  /\ UNCHANGED <<redis, redisUp, redisSilent, connectCalls, op, qid, pc, res>>
  /\ ConnFrame

\* client.connect() rejects (the server refuses, or connectTimeout passes
\* without an answer): .catch(reject).
ConnectRejected ==
  /\ attempt = "running"
  /\ ~redisUp \/ redisSilent
  /\ attempt' = "over"
  /\ connectionPromise' =
       IF connectionPromise = "pending" THEN "rejected" ELSE connectionPromise
  /\ UNCHANGED <<redis, redisUp, redisSilent, isConnected, connectCalls,
                 op, qid, pc, res>>
  /\ ConnFrame

\* The client emits 'error' while the attempt goes on: the listener rejects
\* the promise; the attempt itself is not over.
ErrorEvent ==
  /\ attempt = "running"
  /\ connectionPromise = "pending"
  /\ ~redisUp \/ redisSilent
  /\ connectionPromise' = "rejected"
  /\ UNCHANGED <<redis, redisUp, redisSilent, isConnected, attempt,
                 connectCalls, op, qid, pc, res>>
  /\ ConnFrame

\* The caller's `await this.connect()` ends: it sends its command when the
\* promise resolved and throws when it rejected.
AwaitConnect(p) ==
  /\ pc[p] = "await_connect"
  /\ connectionPromise \in {"resolved", "rejected"}
  /\ IF connectionPromise = "resolved"
     THEN /\ pc' = [pc EXCEPT ![p] = "await_reply"]
          /\ UNCHANGED res
     ELSE /\ pc' = [pc EXCEPT ![p] = "done"]
          /\ res' = [res EXCEPT ![p] = Thrown("Failed to " \o op[p] \o " data in Redis")]
  /\ UNCHANGED <<redis, redisUp, redisSilent, isConnected, connectionPromise,
                 attempt, connectCalls, op, qid>>
  /\ ConnFrame

\* The server answers the command (it executes it when it is reachable,
\* the client rejects it when it is not); a silent server never does.
Reply(p) ==
  LET key == QueueKey(qid[p])
  IN  /\ pc[p] = "await_reply"
      /\ ~redisSilent
      /\ pc' = [pc EXCEPT ![p] = "done"]
      /\ IF ~redisUp \/ (op[p] = "increment" /\ ~IncrOK(key))
         THEN /\ res' = [res EXCEPT ![p] = Thrown("Failed to " \o op[p] \o " data in Redis")]
              /\ UNCHANGED redis
         ELSE CASE op[p] = "get" ->
                     /\ res' = [res EXCEPT ![p] = Returned("", AdapterGet(key), TRUE)]
                     /\ UNCHANGED redis
                [] op[p] = "set" ->
                     /\ redis' = [redis EXCEPT ![key] = RedisString(JSONStringify(Num(0)))]
                     /\ res' = [res EXCEPT ![p] = Returned("", Null, TRUE)]
                [] op[p] = "delete" ->
                     /\ redis' = [redis EXCEPT ![key] = RedisNil]
                     /\ res' = [res EXCEPT ![p] = Returned("", Null, DeleteResult(key))]
                [] OTHER ->
                     /\ redis' = [redis EXCEPT ![key] = RedisString(Digits(IncrValue(key)))]
                     /\ res' = [res EXCEPT ![p] = Returned("", Num(IncrValue(key)), TRUE)]
      /\ UNCHANGED <<redisUp, redisSilent, isConnected, connectionPromise,
                     attempt, connectCalls, op, qid>>
      /\ ConnFrame

\* The Redis server stops answering, for good.
GoSilent ==
  /\ ~redisSilent
  /\ redisSilent' = TRUE
  /\ UNCHANGED <<redis, redisUp, isConnected, connectionPromise, attempt,
                 connectCalls, op, qid, pc, res>>
  /\ ConnFrame

\* A new adapter (constructor: isConnected false, no promise) on a server
\* whose key holds any of the starting counters.
InitConn ==
  /\ Init
  /\ backend = "redis"
  /\ ~isConnected
  /\ store0["b"] = NoEntry

NextConn ==
  \/ \E p \in Procs, c \in AdapterCommands : AdapterCall(p, c)
  \/ ConnectResolved
  \/ ConnectRejected
  \/ ErrorEvent
  \/ \E p \in Procs : AwaitConnect(p)
  \/ \E p \in Procs : Reply(p)
  \/ ToggleRedis
  \/ GoSilent

SpecConn == InitConn /\ [][NextConn]_vars

\* The event loop runs every continuation that is ready, the client ends
\* every connection attempt (connectTimeout), and a server that answers
\* answers every command.
SpecConnLive ==
  /\ SpecConn
  /\ WF_vars(ConnectResolved \/ ConnectRejected)
  /\ \A p \in Procs : WF_vars(AwaitConnect(p)) /\ WF_vars(Reply(p))

(***************************************************************************)
(* Properties.                                                             *)
(***************************************************************************)
IssuedOk(p) == op[p] = "getTicket" /\ pc[p] = "done" /\ res[p].kind = "ok"

\* Every request that has started on the queue is a getTicket.
OnlyIssues(queueId) ==
  \A p \in Procs : pc[p] # "idle" /\ qid[p] = queueId => op[p] = "getTicket"

\* C1: the first getTicket on a queue that has no stored counter (never
\* issued, never reset) returns "0000" and persists the integer 0.
C1_FirstTicketIs0000 ==
  \A p \in Procs :
    IssuedOk(p) /\ readAbsent[p] /\ prevOp[p] = "none" /\ sequential
      => res[p].ticket = "0000" /\ wrote[p] = Num(0)

\* C2: the tickets returned by getTicket calls on one queue whose reads and
\* writes interleave in any order are pairwise distinct.
C2_ConcurrentTicketsDistinct ==
  \A p1, p2 \in Procs :
    /\ p1 # p2
    /\ IssuedOk(p1) /\ IssuedOk(p2)
    /\ qid[p1] = qid[p2]
    /\ OnlyIssues(qid[p1])
    /\ store0[qid[p1]] # NoEntry
    => res[p1].ticket # res[p2].ticket

\* C3: once all N concurrent getTicket calls on a queue have completed, the
\* stored counter has advanced by exactly N steps of the cycle.
C3_NoLostUpdate ==
  \A q \in QueueIds :
    /\ \A p \in Procs : IssuedOk(p) /\ qid[p] = q
    /\ store0[q] # NoEntry
    => Stored(q) = Num((store0[q].n + NumProcs) % (MAX_TICKET_NUMBER + 1))

\* C4: k sequential getTicket calls on a never-seen queue return, in order,
\* the formatted values 0, 1, ..., (k-1) mod 10000.
C4_SequentialSequence ==
  \A q \in QueueIds :
    sequential /\ store0[q] = NoEntry /\ OnlyIssues(q)
      => \A i \in 1..Len(issued[q]) :
           issued[q][i] =
             FormatTicketNumber(Num((i - 1) % (MAX_TICKET_NUMBER + 1)))

\* C5: a getTicket that read the stored counter 9999 returns "0000" and
\* persists 0.
C5_Wraparound ==
  [][\A p \in Procs :
       /\ pc[p] = "gt_write" /\ pc'[p] = "done"
       /\ readVal[p] = Num(MAX_TICKET_NUMBER)
       /\ res'[p].kind = "ok"
       => res'[p].ticket = "0000" /\ Stored(qid[p])' = Num(0)]_vars

C5_Witness ==
  \E p \in Procs :
    /\ IssuedOk(p)
    /\ readVal[p] = Num(MAX_TICKET_NUMBER)
    /\ wrote[p] = Num(0)

\* C6: every stored queue counter is an integer in [0, 9999], whatever
\* operations ran, on every backend.
C6_CounterInRange ==
  \A q \in QueueIds :
    \/ Stored(q) = NoEntry
    \/ IsNum(Stored(q)) /\ Stored(q).n >= 0 /\ Stored(q).n <= MAX_TICKET_NUMBER

\* C7: a step of an operation on queue a leaves the stored counter of
\* every other queue b unchanged.
C7_Independence ==
  [][\A p \in Procs :
       pc'[p] # pc[p]
         => \A b \in QueueIds \ {qid'[p]} :
              \/ UNCHANGED <<backend, storage[QueueKey(b)], redis[QueueKey(b)]>>
              \/ Stored(b)' = Stored(b)]_vars

C7_Witness ==
  \E p \in Procs :
    /\ pc[p] = "done" /\ qid[p] = "a" /\ wrote[p] # NoEntry
    /\ Stored("b") # NoEntry
    /\ Stored("b") # Stored("a")

\* C8: resetQueue(q) followed, with no intervening operation on q, by
\* getTicket(q) returns "0000".
C8_ResetThenIssue ==
  \A p \in Procs :
    IssuedOk(p) /\ prevOp[p] = "resetQueue" /\ sequential
      => res[p].ticket = "0000"

\* C9: a getQueueStatus step performs no store write: the contents of the
\* store, hence every stored counter, are the same before and after it.
C9_PeekNoMutation ==
  [][\A p \in Procs :
       op'[p] = "getQueueStatus" /\ pc'[p] # pc[p]
         => /\ storage' = storage
            /\ redis' = redis
            /\ wrote'[p] = NoEntry
            /\ \A q \in QueueIds : Stored(q)' = Stored(q)]_vars

C9_Witness ==
  \E p1, p2 \in Procs :
    /\ op[p1] = "getQueueStatus" /\ pc[p1] = "done" /\ res[p1].kind = "ok"
    /\ IssuedOk(p2) /\ qid[p2] = qid[p1]
    /\ prevOp[p2] = "getQueueStatus"
    /\ res[p2].ticket = FormatTicketNumber(NextTicket(res[p1].value))

\* C10: getQueueStatus on a queue with no stored counter succeeds and
\* returns "0000" without persisting anything.
C10_PeekAbsent ==
  \A p \in Procs :
    op[p] = "getQueueStatus" /\ pc[p] = "done" /\ readAbsent[p]
      => res[p].kind = "ok" /\ res[p].ticket = "0000" /\ wrote[p] = NoEntry

\* C11: resetQueue is create-or-reset: a reset that succeeds leaves the
\* stored counter of its queue at 0 and returns true, whether the queue was
\* absent or held a value, and a reset fails only for a missing queueId or
\* a failing store, never because the queue did not exist.
C11_ResetCreatesOrResets ==
  [][\A p \in Procs :
       op'[p] = "resetQueue" /\ pc[p] = "idle" /\ pc'[p] = "done"
         => /\ res'[p].kind = "ok"
                 => /\ ~IsMissing(qid'[p])
                    /\ \A q \in QueueIds : q = qid'[p] => Stored(q)' = Num(0)
                    /\ res'[p].flag = TRUE
            /\ res'[p].kind = "error"
                 => IsMissing(qid'[p]) \/ ~CommandOK]_vars

C11_Witness ==
  \E p \in Procs :
    /\ op[p] = "resetQueue" /\ pc[p] = "done" /\ res[p].kind = "ok"
    /\ store0[qid[p]] = NoEntry /\ prevOp[p] = "none"
    /\ Stored(qid[p]) = Num(0)

\* C12: after deleteQueue(q) the next getTicket(q), with nothing in between,
\* behaves as for a never-seen queue and returns "0000".
C12_DeleteThenIssue ==
  \A p \in Procs :
    IssuedOk(p) /\ prevOp[p] = "deleteQueue" /\ sequential
      => readAbsent[p] /\ res[p].ticket = "0000"

\* C13: a getTicket that returns a ticket has performed exactly one store
\* write, to the key of its own queue, and the value written is the integer
\* whose four-digit formatting it returns.
C13_OneWritePerTicket ==
  \A p \in Procs :
    IssuedOk(p)
      => /\ Len(writeLog[p]) = 1
         /\ writeLog[p][1][1] = QueueKey(qid[p])
         /\ IsNum(writeLog[p][1][2])
         /\ res[p].ticket = FormatTicketNumber(writeLog[p][1][2])

\* C14: a getTicket whose store read or store write fails ends with an
\* error and returns no ticket; when the read fails the request ends there:
\* no value is substituted for the read, nothing is written and the stored
\* data stay as they were.
C14_StorageFailurePropagates ==
  [][\A p \in Procs :
       /\ ( /\ pc[p] = "idle" /\ pc'[p] # "idle" /\ op'[p] = "getTicket"
            /\ ~IsMissing(qid'[p]) /\ ~CommandOK )
            => /\ pc'[p] = "done"
               /\ res'[p].kind = "error" /\ res'[p].ticket = ""
               /\ readVal'[p] = readVal[p]
               /\ writeLog'[p] = <<>>
               /\ UNCHANGED <<storage, redis, issued>>
       /\ ( pc[p] = "gt_write" /\ pc'[p] # "gt_write" /\ ~CommandOK )
            => /\ pc'[p] = "done"
               /\ res'[p].kind = "error" /\ res'[p].ticket = ""
               /\ UNCHANGED issued]_vars

\* With Redis gone after the connection was made, one getTicket failed at
\* its write (it had read 0) and another one at its read of a queue holding 0.
C14_Witness ==
  \E p1, p2 \in Procs :
    /\ backend = "redis" /\ isConnected /\ ~redisUp
    /\ op[p1] = "getTicket" /\ pc[p1] = "done" /\ res[p1].kind = "error"
    /\ readVal[p1] = Num(0) /\ writeLog[p1] = <<>>
    /\ op[p2] = "getTicket" /\ pc[p2] = "done" /\ res[p2].kind = "error"
    /\ ~IsMissing(qid[p2]) /\ store0[qid[p2]] = Num(0)
    /\ readVal[p2] = Null /\ writeLog[p2] = <<>>
    /\ Stored(qid[p2]) = Num(0)

\* C15: getTicket, getQueueStatus and resetQueue called without a queueId
\* fail with the error 'Queue ID is required' and write nothing to the
\* store.
C15_QueueIdRequired ==
  \A p \in Procs :
    /\ pc[p] = "done"
    /\ op[p] \in {"getTicket", "getQueueStatus", "resetQueue"}
    /\ IsMissing(qid[p])
    => /\ res[p].kind = "error"
       /\ res[p].msg = "Queue ID is required"
       /\ writeLog[p] = <<>>

\* C16: the stored counter of a queue changes only by one of four
\* transitions, made by a step of an operation on that queue: absent -> 0
\* (getTicket or resetQueue), n -> (n + 1) mod 10000 (getTicket), n -> 0
\* (resetQueue), n -> absent (deleteQueue).
C16_OnlyFourTransitions ==
  [][\A q \in QueueIds :
       \/ Stored(q)' = Stored(q)
       \/ \E p \in Procs :
            /\ pc'[p] # pc[p]
            /\ qid'[p] = q
            /\ \/ /\ Stored(q) = NoEntry /\ Stored(q)' = Num(0)
                  /\ op'[p] \in {"getTicket", "resetQueue"}
               \/ /\ IsNum(Stored(q)) /\ op'[p] = "getTicket"
                  /\ Stored(q)' = Num((Stored(q).n + 1) % (MAX_TICKET_NUMBER + 1))
               \/ /\ IsNum(Stored(q)) /\ op'[p] = "resetQueue"
                  /\ Stored(q)' = Num(0)
               \/ /\ IsNum(Stored(q)) /\ op'[p] = "deleteQueue"
                  /\ Stored(q)' = NoEntry]_vars

\* C17: formatting never fails and, for every integer n >= 0, those above
\* 9999 included, gives n mod 10000 as four digits with leading zeros,
\* both in QueueService.formatTicketNumber and in Ticket.formatNumber.
C17_FormatTotalModulo ==
  LET expected == PadStart(ToString(fmtIn % (MAX_TICKET_NUMBER + 1)), 4, "0")
  IN  /\ fmtSvc.kind # "none"
           => fmtSvc.kind = "ok" /\ fmtSvc.ticket = expected
      /\ fmtTicket.kind # "none"
           => fmtTicket.kind = "ok" /\ fmtTicket.ticket = expected

\* C18: a request whose read found no entry for the key of its queue was
\* handed null by getCurrentTicketNumber (not a number, not NaN), on every
\* storage adapter.
C18_AbsentReadsNull ==
  \A p \in Procs : readAbsent[p] => readVal[p] = Null

\* C19: when a request has the store set key k to an integer v in
\* [0, 9999], 0 included, get(k) gives v from then on: right after the set
\* and across every step that is neither a set nor a delete of k.
C19_SetGetRoundTrip ==
  [][\A k \in Keys :
       LET Sets(p) == /\ writeLog'[p] # writeLog[p]
                      /\ writeLog'[p][Len(writeLog'[p])][1] = k
           Deletes(p) == /\ pc'[p] # pc[p]
                         /\ op'[p] = "deleteQueue"
                         /\ QueueKey(qid'[p]) = k
       IN  /\ \A p \in Procs :
                Sets(p) =>
                  LET v == writeLog'[p][Len(writeLog'[p])][2]
                  IN  IsNum(v) /\ v.n >= 0 /\ v.n <= MAX_TICKET_NUMBER
                        => AdapterGet(k)' = v
           /\ (\A p \in Procs : ~Sets(p) /\ ~Deletes(p))
                => \/ UNCHANGED <<backend, storage[k], redis[k]>>
                   \/ AdapterGet(k)' = AdapterGet(k)]_vars

\* On Redis a queue that did not hold 0 was set to 0 by one request, and a
\* later getQueueStatus read 0 back.
C19_Witness ==
  \E p1, p2 \in Procs :
    /\ backend = "redis"
    /\ ~IsMissing(qid[p1]) /\ qid[p2] = qid[p1]
    /\ store0[qid[p1]] # Num(0)
    /\ writeLog[p1] = <<<<QueueKey(qid[p1]), Num(0)>>>>
    /\ op[p2] = "getQueueStatus" /\ pc[p2] = "done" /\ res[p2].kind = "ok"
    /\ readVal[p2] = Num(0) /\ ~readAbsent[p2]
    /\ AdapterGet(QueueKey(qid[p1])) = Num(0)

\* C20: a delete that succeeds returns true exactly when the key held a
\* value before it, leaves the key absent, and a delete that directly
\* follows a delete of the same key returns false.
C20_DeleteReportsPresence ==
  [][\A p \in Procs :
       /\ pc[p] = "idle" /\ pc'[p] = "done"
       /\ op'[p] = "deleteQueue" /\ res'[p].kind = "ok"
       => \A q \in QueueIds :
            q = qid'[p]
              => /\ res'[p].flag = (Stored(q) # NoEntry)
                 /\ Stored(q)' = NoEntry
                 /\ AdapterGet(QueueKey(q))' \in {Null, Undefined}
                 /\ prevOp'[p] = "deleteQueue" /\ sequential'
                      => res'[p].flag = FALSE]_vars

\* Two deletes of a queue that held a value, one after the other: the first
\* returned true, the second false.
C20_Witness ==
  \E p1, p2 \in Procs :
    /\ op[p1] = "deleteQueue" /\ pc[p1] = "done" /\ res[p1].kind = "ok"
    /\ op[p2] = "deleteQueue" /\ pc[p2] = "done" /\ res[p2].kind = "ok"
    /\ qid[p1] = qid[p2] /\ store0[qid[p1]] # NoEntry
    /\ prevOp[p1] = "none" /\ prevOp[p2] = "deleteQueue"
    /\ res[p1].flag = TRUE /\ res[p2].flag = FALSE
    /\ Stored(qid[p1]) = NoEntry

C22_KeysCollisionFree ==
  keyOut # <<>> /\ keyIds[1] # keyIds[2] => keyOut[1] # keyOut[2]

\* The keys of "a:ticket" and of "a" were computed; one is a prefix of the
\* other and they differ.
C22_Witness ==
  /\ keyIds = <<"a:ticket", "a">>
  /\ keyOut = <<"queue:a:ticket:ticket", "queue:a:ticket">>

\* C23: a getQueueStatus that follows the getTickets of a queue which held
\* a counter at the start and saw no reset or delete reports as
\* currentTicket the ticket returned last and as count at least the number
\* of tickets issued meanwhile (exactly that number when the queue started
\* at 0), past the 9999 wraparound too.
C23_StatusCountsIssued ==
  \A p \in Procs :
    LET q == qid[p]
    IN  ( /\ op[p] = "getQueueStatus" /\ pc[p] = "done" /\ res[p].kind = "ok"
          /\ sequential /\ prevOp[p] = "getTicket"
          /\ store0[q] # NoEntry
          /\ \A p2 \in Procs :
               qid[p2] = q => op[p2] \in {"getTicket", "getQueueStatus"} )
        => /\ res[p].ticket = issued[q][Len(issued[q])]
           /\ IsNum(res[p].value)
           /\ res[p].value.n >= Len(issued[q])
           /\ store0[q] = Num(0) => res[p].value.n = Len(issued[q])

\* C24: no call blocks for ever: every get / set / delete / increment that
\* was started completes, with a result or with an error, also when the
\* Redis server never answers the connect or the command.
C24_EveryCallCompletes ==
  \A p \in Procs : (pc[p] # "idle") ~> (pc[p] = "done")

\* C25: a getTicket that was in flight when a resetQueue of its queue
\* completed does not undo the reset: its write step, taken while the reset
\* is the last operation completed on the queue, leaves the stored counter
\* as the reset set it.
C25_ResetNotUndone ==
  [][\A p \in Procs :
       ( /\ pc[p] = "gt_write" /\ pc'[p] = "done"
         /\ lastOp[qid[p]] = "resetQueue"
         /\ prevOp[p] # "resetQueue" )
       => \A q \in QueueIds : q = qid[p] => Stored(q)' = Stored(q)]_vars

\* C26: createQueue never overwrites an existing counter: among concurrent
\* createQueue / incrementTicketNumber calls on a queue, the write step of
\* a createQueue that succeeds finds no entry under the key of the queue
\* (so at most one createQueue succeeds, and no counter that exists or was
\* advanced is set back to 0), and a createQueue that finds a stored
\* counter fails with 'already exists' and changes nothing.
C26_CreateNeverOverwrites ==
  [][\A p \in Procs :
       /\ ( /\ pc[p] = "cq_write" /\ pc'[p] = "done" /\ res'[p].kind = "ok"
            /\ \A p2 \in Procs :
                 pc[p2] # "idle" /\ qid[p2] = qid[p]
                   => op[p2] \in {"createQueue", "incrementTicketNumber"} )
            => \A q \in QueueIds : q = qid[p] => Stored(q) = NoEntry
       /\ ( /\ pc[p] = "idle" /\ pc'[p] # "idle" /\ op'[p] = "createQueue"
            /\ ~IsMissing(qid'[p]) /\ CommandOK
            /\ \A q \in QueueIds : q = qid'[p] => Stored(q) # NoEntry )
            => /\ pc'[p] = "done"
               /\ res'[p] = Thrown("Queue " \o qid'[p] \o " already exists")
               /\ UNCHANGED <<storage, redis>>]_vars

\* C27: for every current value n in 0..9999 the advance of getTicket, the
\* advance of incrementTicketNumber and Ticket.getNextNumber give the same next
\* value, which is in 0..9999 again, and for an absent (null) current value
\* the three have the same outcome.
C27_AdvancesAgree ==
  ( /\ advOut.getTicket.kind # "none"
    /\ advOut.incrementTicketNumber.kind # "none"
    /\ advOut.getNextNumber.kind # "none" )
    => /\ IsNum(advIn) /\ advIn.n \in MIN_TICKET_NUMBER..MAX_TICKET_NUMBER
          => /\ advOut.getTicket.kind = "ok"
             /\ advOut.incrementTicketNumber = advOut.getTicket
             /\ advOut.getNextNumber = advOut.getTicket
             /\ IsNum(advOut.getTicket.value)
             /\ advOut.getTicket.value.n \in MIN_TICKET_NUMBER..MAX_TICKET_NUMBER
       /\ advIn = Null
          => /\ advOut.incrementTicketNumber.kind = advOut.getTicket.kind
             /\ advOut.getNextNumber.kind = advOut.getTicket.kind
             /\ advOut.getTicket.kind = "ok"
                  => /\ advOut.incrementTicketNumber.value = advOut.getTicket.value
                     /\ advOut.getNextNumber.value = advOut.getTicket.value

\* C28: connect is single-flight: client.connect() is invoked at most once,
\* every caller that waits waits on the one cached promise of that attempt,
\* a command is on its way to the store only when isConnected, and
\* isConnected is true only once the one client.connect() has resolved.
C28_ConnectSingleFlight ==
  /\ connectCalls <= 1
  /\ \A p \in Procs :
       pc[p] = "await_connect"
         => connectionPromise # "none" /\ connectCalls = 1
  /\ \A p \in Procs : pc[p] = "await_reply" => isConnected
  /\ isConnected => (attempt = "over" /\ connectCalls = 1)
  /\ attempt = "running" => connectionPromise \in {"pending", "rejected"}

\* Two callers wait at once on the one attempt that is still going on.
C28_Witness ==
  /\ pc[1] = "await_connect" /\ pc[2] = "await_connect"
  /\ op[1] = "get" /\ op[2] = "increment"
  /\ attempt = "running" /\ connectionPromise = "pending"
  /\ connectCalls = 1

\* C29: after the connection attempt of the adapter has failed, a later get,
\* set or delete on the adapter starts a new attempt (client.connect() is
\* invoked again), so that the call can succeed once the store is reachable.
C29_RetryAfterFailedConnect ==
  [][\A p \in Procs :
       ( /\ pc[p] = "idle" /\ pc'[p] # "idle"
         /\ op'[p] \in {"get", "set", "delete"}
         /\ attempt = "over" /\ connectionPromise = "rejected"
         /\ ~isConnected )
         => /\ connectCalls' = connectCalls + 1
            /\ attempt' = "running"
            /\ connectionPromise' = "pending"]_vars

\* C30: increment adds 1 in one step and returns the new value: 1 and a new
\* key when the key was absent, n + 1 when it held n; and the values that
\* concurrent increment calls on one key return are pairwise distinct and
\* consecutive.
C30_IncrementAtomic ==
  /\ [][\A p \in Procs :
          ( /\ pc[p] = "await_reply" /\ pc'[p] = "done"
            /\ op[p] = "increment" /\ res'[p].kind = "ok" )
            => \A k \in Keys :
                 k = QueueKey(qid[p])
                   => /\ res'[p].value =
                           Num(IF redis[k].present
                               THEN DigitsValue(redis[k].text) + 1 ELSE 1)
                      /\ redis'[k] = RedisString(Digits(res'[p].value.n))]_vars
  /\ [](LET done == {p \in Procs : /\ op[p] = "increment" /\ pc[p] = "done"
                                    /\ res[p].kind = "ok"}
             base == IF store0[ConnQueue] = NoEntry THEN 0 ELSE store0[ConnQueue].n
         IN  (\A p \in Procs : op[p] \in {"none", "increment"})
               => /\ \A p1, p2 \in done :
                       p1 # p2 => res[p1].value # res[p2].value
                  /\ {res[p].value.n : p \in done}
                       = (base + 1)..(base + Cardinality(done)))

\* Two concurrent increment calls on an absent key have returned 1 and 2.
C30_Witness ==
  /\ store0[ConnQueue] = NoEntry
  /\ \A p \in {1, 2} : op[p] = "increment" /\ pc[p] = "done" /\ res[p].kind = "ok"
  /\ {res[1].value, res[2].value} = {Num(1), Num(2)}
  /\ redis[QueueKey(ConnQueue)] = RedisString(Digits(2))

====
